---- MODULE Spec2Model ----
(***************************************************************************)
(* A model of zalgonoise/fts: the SQLite FTS5 backed Index (index.go,      *)
(* database.go), the no-op Indexer, the logging / metrics / tracing        *)
(* decorators and the New build pipeline (indexer.go).                     *)
(*                                                                         *)
(* Specifications:                                                         *)
(*   Spec      the Index over its backend: NewIndex, Search, Insert,       *)
(*             Delete, Shutdown, with the failures the database/sql calls   *)
(*             of the code can report.                                     *)
(*   SpecDeco  the decorator constructors, New, and calls through a stack  *)
(*             of decorators around a delegate.                            *)
(*   SpecNoOp  calls on one no-op Indexer.                                 *)
(*   SpecMetrics  interleaved callers through the metrics decorator and    *)
(*             the counters of its Prometheus sink.                        *)
(***************************************************************************)
EXTENDS Integers, Sequences, FiniteSets, TLC

VARIABLES
    phase,    \* Index lifecycle: "none" (not built), "open", "failed", "closed"
    table,    \* committed rows of fulltext_search, in rowid order
    dbOpen,   \* TRUE while a *sql.DB opened by NewIndex has not been closed
    last,     \* the last Index call: inputs, injected backend fault, returns
    inst,     \* SpecDeco: the Indexer instance under construction / in use
    held,     \* SpecDeco: the instance the caller passed to the last constructor
    call,     \* SpecDeco: the last constructor or operation call and its returns
    hist,     \* SpecNoOp: the operations called so far on the no-op Indexer
    port,     \* SpecDeco: TCP port 8080 of the process: "free", "listening"
              \* (a default metrics sink's server), "panic" (the process died)
    counters, \* SpecMetrics: the sink's counters and histogram of each operation
    callers,  \* SpecMetrics: each caller's position in a metricsIndexer method
    calls     \* SpecMetrics: calls started and delegate errors, by operation

vars == <<phase, table, dbOpen, last, inst, held, call, hist, port,
         counters, callers, calls>>
idxVars == <<phase, table, dbOpen, last>>
mxVars == <<counters, callers, calls>>
decoVars == <<inst, held, call, hist, port, mxVars>>

---------------------------------------------------------------------------
(* Bounds of the model.                                                    *)

\* most rows a batch passed to Insert / NewIndex holds
MaxBatch == 2
\* most keys a batch passed to Delete holds
MaxKeys == 2
\* most rows the table holds (Insert is not taken beyond it)
MaxRows == 2
\* most options passed to New
MaxOpts == 3
\* most decorator layers the constructors are applied up to
MaxDepth == 3
\* calls made on one no-op Indexer
MaxCalls == 3
\* goroutines calling through one metrics decorator at once
MaxCallers == 2
\* calls made through the metrics decorator
MaxMetricCalls == 3

---------------------------------------------------------------------------
(* Values.  A text (a key, a value or a search term, after SQLite's        *)
(* conversion to text) is a sequence of tokens.                            *)

Keys == { <<"a">>, <<"b">>, <<"a", "b">> }
Vals == { <<"a">>, <<"gold">> }
Terms == { <<"a">>, <<"gold">>, <<"zinc">> }
Rows == [key : Keys, val : Vals]

\* context.Background() and a caller's cancellable request context
Ctxs == { "background", "request" }

SeqsUpTo(S, n) == UNION { [1..k -> S] : k \in 0..n }

\* Errors are chains of error values: <<>> is nil, errors.Is looks through
\* the chain, errors.Join concatenates the non-nil ones.
NilErr == << >>
Err(k) == << k >>
ErrorsIs(e, k) == \E i \in DOMAIN e : e[i] = k
ErrorsJoin(a, b) == a \o b

ErrNotFoundKeyword == "fts: not found: keyword"
\* fmt.Errorf("%w: %v", ErrNotFoundKeyword, searchTerm)
WrapNotFound(term) == << "fmt.wrapError", ErrNotFoundKeyword >>

---------------------------------------------------------------------------
(* The backend: an FTS5 virtual table fulltext_search(id, val).            *)

\* the unicode61 tokenizer: the set of tokens of a text
Tokenize(text) == { text[i] : i \in DOMAIN text }

\* searchQuery: SELECT id, val FROM fulltext_search(?) -- the table-valued
\* form is `fulltext_search MATCH ?`: every token of the query must occur in
\* some column of the row, id included.
MatchRow(term, row) ==
    Tokenize(term) \subseteq (Tokenize(row.key) \cup Tokenize(row.val))

\* deleteQuery: DELETE FROM fulltext_search WHERE id MATCH ? -- the bound key
\* is an FTS5 query restricted to column id: every token of it must occur in
\* the row's id.
MatchId(key, row) == Tokenize(key) \subseteq Tokenize(row.key)

\* rows the search query yields, in rowid order
QueryRows(t, term) == SelectSeq(t, LAMBDA r : MatchRow(term, r))

---------------------------------------------------------------------------
(* Index.Search                                                            *)

NoFault == [kind |-> "none", at |-> 0, mode |-> "none"]

\* what the backend can do to one Search over n matching rows:
\*   query  QueryContext fails
\*   next   rows.Next reports false because of an error after `at` rows
\*   scan   rows.Scan of row `at` fails
SearchFaults(n) ==
    { NoFault, [kind |-> "query", at |-> 0, mode |-> "none"] }
    \cup { [kind |-> "next", at |-> j, mode |-> "none"] : j \in 0..n }
    \cup { [kind |-> "scan", at |-> j, mode |-> "none"] : j \in 1..n }

Ret(res, isNil, err) == [res |-> res, resNil |-> isNil, err |-> err]

RECURSIVE ScanLoop_KeepsRowsOnScanError(_, _, _, _)
\* a loop that returns the rows scanned so far together with a scan error
ScanLoop_KeepsRowsOnScanError(rows, i, acc, fault) ==
    IF i > Len(rows) \/ (fault.kind = "next" /\ fault.at = i - 1)
    THEN Ret(acc, FALSE, NilErr)
    ELSE IF fault.kind = "scan" /\ fault.at = i
         THEN Ret(acc, FALSE, Err("scan failed"))
         ELSE ScanLoop_KeepsRowsOnScanError(rows, i + 1, Append(acc, rows[i]), fault)

\* the for rows.Next() loop of Search, from row i on, acc the rows appended
RECURSIVE ScanLoop(_, _, _, _)
ScanLoop(rows, i, acc, fault) ==
    IF i > Len(rows) \/ (fault.kind = "next" /\ fault.at = i - 1)
    THEN \* rows.Next() is false; rows.Err() is not consulted
         Ret(acc, FALSE, NilErr)
    ELSE IF fault.kind = "scan" /\ fault.at = i
         THEN Ret(<< >>, TRUE, Err("scan failed"))
         ELSE ScanLoop(rows, i + 1, Append(acc, rows[i]), fault)

\* Search without its len(res) == 0 test: an empty list with a nil error
IndexSearch_NoEmptyTest(t, open, term, fault) ==
    IF ~open \/ fault.kind = "query"
    THEN Ret(<< >>, TRUE, Err(IF open THEN "query failed" ELSE "sql: database is closed"))
    ELSE ScanLoop(QueryRows(t, term), 1, << >>, fault)

IndexSearch(t, open, term, fault) ==
    IF ~open \/ fault.kind = "query"
    THEN Ret(<< >>, TRUE, Err(IF open THEN "query failed" ELSE "sql: database is closed"))
    ELSE LET r == ScanLoop(QueryRows(t, term), 1, << >>, fault)
         IN  IF r.err # NilErr THEN r
             ELSE IF Len(r.res) = 0
                  THEN Ret(<< >>, TRUE, WrapNotFound(term))
                  ELSE r

---------------------------------------------------------------------------
(* Index.Insert and Index.Delete: one database/sql transaction each.       *)

ErrTxDone == "sql: transaction has already been committed or rolled back"

\* what the backend can do to one transaction of n statements, under ctx:
\*   begin           BeginTx fails
\*   exec at i       statement i fails; mode "driver": the driver reports it;
\*                   mode "ctx": ctx was cancelled (database/sql then rolls
\*                   the transaction back on its own)
\*   commit          Commit fails; mode "driver": the driver's commit failed,
\*                   the Tx is done and Rollback reports ErrTxDone; mode
\*                   "ctxRollbackOk" / "ctxRollbackFails": ctx was cancelled,
\*                   Commit returns ctx.Err() leaving the Tx to Rollback, which
\*                   succeeds / fails; mode "ctxDone": the cancelled Tx was
\*                   already rolled back, Commit and Rollback report ErrTxDone
TxFaults(n, ctx) ==
    { NoFault, [kind |-> "begin", at |-> 0, mode |-> "driver"],
      [kind |-> "commit", at |-> 0, mode |-> "driver"] }
    \cup { [kind |-> "exec", at |-> i, mode |-> "driver"] : i \in 1..n }
    \cup (IF ctx = "background" THEN {} ELSE
            { [kind |-> "exec", at |-> i, mode |-> "ctx"] : i \in 1..n }
            \cup { [kind |-> "commit", at |-> 0, mode |-> m] :
                     m \in {"ctxRollbackOk", "ctxRollbackFails", "ctxDone"} })

TxRet(t, err, txLeft) == [table |-> t, err |-> err, txLeft |-> txLeft]

\* the error tx.Commit() returns
CommitErr(fault) ==
    IF fault.kind # "commit" THEN NilErr
    ELSE CASE fault.mode = "driver"  -> Err("commit failed")
           [] fault.mode = "ctxDone" -> Err(ErrTxDone)
           [] OTHER                  -> Err("context canceled")

\* the error tx.Rollback() returns after a failed tx.Commit()
RollbackAfterCommit(fault) ==
    CASE fault.mode = "ctxRollbackOk"    -> NilErr
      [] fault.mode = "ctxRollbackFails" -> Err("rollback failed")
      [] OTHER                           -> Err(ErrTxDone)

\* if err = tx.Commit(); err != nil { return tx.Rollback() }; return nil
CommitTx(t, staged, fault) ==
    IF CommitErr(fault) # NilErr
    THEN TxRet(t, RollbackAfterCommit(fault), FALSE)
    ELSE TxRet(staged, NilErr, FALSE)

\* a failed statement: the error is returned, the Tx is neither committed
\* nor rolled back by the code
ExecFailed(t, fault) ==
    TxRet(t, Err(IF fault.mode = "ctx" THEN "context canceled" ELSE "exec failed"),
          fault.mode # "ctx")

BeginFailed(t, open) ==
    TxRet(t, Err(IF open THEN "begin failed" ELSE "sql: database is closed"), FALSE)

\* insertValueQuery for one attribute: a new row, with the next rowid
InsertRow(staged, attr) == Append(staged, [key |-> attr.key, val |-> attr.val])

\* for idx := range attrs { tx.ExecContext(insertValueQuery, ...) }
RECURSIVE InsertLoop(_, _, _, _, _)
InsertLoop(t, staged, attrs, idx, fault) ==
    IF idx > Len(attrs) THEN CommitTx(t, staged, fault)
    ELSE IF fault.kind = "exec" /\ fault.at = idx THEN ExecFailed(t, fault)
    ELSE InsertLoop(t, InsertRow(staged, attrs[idx]), attrs, idx + 1, fault)

\* an Insert that refuses an empty batch
IndexInsert_RejectsEmpty(t, open, attrs, fault) ==
    IF attrs = << >> THEN TxRet(t, Err("no attributes"), FALSE)
    ELSE IF ~open \/ fault.kind = "begin" THEN BeginFailed(t, open)
    ELSE InsertLoop(t, t, attrs, 1, fault)

IndexInsert(t, open, attrs, fault) ==
    IF ~open \/ fault.kind = "begin" THEN BeginFailed(t, open)
    ELSE InsertLoop(t, t, attrs, 1, fault)

\* deleteQuery for one key
DeleteRows(staged, key) == SelectSeq(staged, LAMBDA r : ~MatchId(key, r))

\* for idx := range keys { tx.ExecContext(deleteQuery, keys[idx]) }
RECURSIVE DeleteLoop(_, _, _, _, _)
DeleteLoop(t, staged, keys, idx, fault) ==
    IF idx > Len(keys) THEN CommitTx(t, staged, fault)
    ELSE IF fault.kind = "exec" /\ fault.at = idx THEN ExecFailed(t, fault)
    ELSE DeleteLoop(t, DeleteRows(staged, keys[idx]), keys, idx + 1, fault)

IndexDelete(t, open, keys, fault) ==
    IF ~open \/ fault.kind = "begin" THEN BeginFailed(t, open)
    ELSE DeleteLoop(t, t, keys, 1, fault)

---------------------------------------------------------------------------
(* Index.Shutdown, NewIndex                                                *)

\* i.db.Close()
IndexShutdown(closeFails) == IF closeFails THEN Err("close failed") ELSE NilErr

\* a location: "" is the in-memory database, "index.db" a file that may
\* already hold the table and rows of an earlier run
Uris == { "", "index.db" }
Persisted == { << >>, << [key |-> <<"b">>, val |-> <<"gold">>] >> }

\* what can fail in NewIndex before the initial load:
\*   open          open(uri) fails (validateURI or sql.Open)
\*   init / query  initDatabase: the checkTableExists query fails
\*   init / scan   initDatabase: scanning its row fails
\*   init / create initDatabase: createTableQuery fails (table absent only)
OpenFaults(exists) ==
    { NoFault, [kind |-> "open", at |-> 0, mode |-> "none"],
      [kind |-> "init", at |-> 0, mode |-> "query"],
      [kind |-> "init", at |-> 0, mode |-> "scan"] }
    \cup (IF exists THEN {} ELSE { [kind |-> "init", at |-> 0, mode |-> "create"] })

NewRet(ok, t, err, open) == [ok |-> ok, table |-> t, err |-> err, dbOpen |-> open]

\* NewIndex(uri, attrs...): prior is what the location already holds, of is
\* the fault before the load, lf the fault of the load's transaction
NewIndex(uri, prior, attrs, of, lf, closeFails) ==
    IF of.kind = "open" THEN NewRet(FALSE, << >>, Err("open failed"), FALSE)
    ELSE IF of.kind = "init"
    THEN \* return nil, err: the opened db is not closed
         NewRet(FALSE, << >>, Err("init failed: " \o of.mode), TRUE)
    ELSE IF Len(attrs) > 0
    THEN LET r == IndexInsert(prior, TRUE, attrs, lf)
         IN  IF r.err # NilErr
             THEN NewRet(FALSE, << >>,
                         ErrorsJoin(r.err, IndexShutdown(closeFails)), FALSE)
             ELSE NewRet(TRUE, r.table, NilErr, TRUE)
    ELSE NewRet(TRUE, prior, NilErr, TRUE)

---------------------------------------------------------------------------
(* Indexer instances.  An instance is a base (a nil interface, the no-op   *)
(* Indexer, or an *Index) inside a stack of decorator values, outermost    *)
(* first.  Decorators are struct values holding a delegate and a sink.     *)

NoInst == [base |-> "nil", layers |-> << >>]
\* NoOp()
NoOp == [base |-> "noop", layers |-> << >>]
IndexInst == [base |-> "index", layers |-> << >>]

Layer(kind, sink) == [kind |-> kind, sink |-> sink]

\* sinks a caller passes to the constructors; "nil" is an absent sink
LogHandlers == { "nil", "h1" }
MetricsSinks == { "nil", "m0", "m1", "m2", "m3" }
Tracers == { "nil", "t1" }

\* the release methods a sink has: m0 none, m1 and the default
\* *metrics.Metrics Shutdown(ctx) error, m2 Close() error, m3 both
SinkMethods(sink) ==
    CASE sink \in {"m1", "prom8080"} -> { "Shutdown" }
      [] sink = "m2"                  -> { "Close" }
      [] sink = "m3"                  -> { "Shutdown", "Close" }
      [] OTHER                        -> { }

\* a type switch that tries the Close case first
SinkRelease_CloseFirst(sink) ==
    IF "Close" \in SinkMethods(sink) THEN "Close"
    ELSE IF "Shutdown" \in SinkMethods(sink) THEN "Shutdown"
    ELSE "none"

\* the case the type switch of metricsIndexer.Shutdown takes on a sink: the
\* first that matches, Shutdown(ctx) before Close()
SinkRelease(sink) ==
    IF "Shutdown" \in SinkMethods(sink) THEN "Shutdown"
    ELSE IF "Close" \in SinkMethods(sink) THEN "Close"
    ELSE "none"

\* constructors that wrap their input whatever its outermost layer is
Decorate_AlwaysWraps(ix, kind, sink) ==
    [ix EXCEPT !.layers = << Layer(kind, sink) >> \o @]

\* the constructors' common tail: replace the sink of an outermost decorator
\* of the same kind (in the copy the type assertion yields), else wrap
Decorate(ix, kind, sink) ==
    IF ix.layers # << >> /\ Head(ix.layers).kind = kind
    THEN [ix EXCEPT !.layers[1].sink = sink]
    ELSE [ix EXCEPT !.layers = << Layer(kind, sink) >> \o @]

\* the value the caller passed to a constructor, once the constructor has
\* returned: withLogs, ok := (indexer).(loggedIndexer[K, V]) copies the struct
\* held in the interface value, and the assignment to the sink field changes
\* that copy, which is what the constructor returns
HeldAfter(ix, kind, sink) == ix

IndexerWithLogs(ix, handler) ==
    IF ix = NoInst THEN NoOp
    ELSE Decorate(ix, "log", IF handler = "nil" THEN "stderrText" ELSE handler)

\* newServer(port, reg): the server's goroutine panics when ListenAndServe
\* fails, as it does when a server of this process already listens on :8080
NewServer(p) == IF p = "free" THEN "listening" ELSE "panic"

\* port 8080 after IndexerWithMetrics(ix, m): metrics.New(8080) runs for a
\* non-nil indexer and a nil m, and reaches newServer unless Registry fails
PortAfterConstructor(p, ix, m, newFails) ==
    IF ix # NoInst /\ m = "nil" /\ ~newFails THEN NewServer(p) ELSE p

\* port 8080 after a Shutdown through layers: Metrics.Shutdown stops the
\* server of a default sink
PortAfterShutdown(p, layers) ==
    IF p = "listening"
       /\ \E i \in DOMAIN layers : layers[i].kind = "metrics" /\ layers[i].sink = "prom8080"
    THEN "free" ELSE p

\* a constructor that shuts the replaced sink down
MetricsConstructorCalls_ReleasesReplaced(ix, m, newFails) ==
    (IF ix # NoInst /\ m = "nil"
     THEN << [layer |-> "metrics", what |-> "New", sink |-> "prom8080",
              ctx |-> << >>, name |-> ""] >>
     ELSE << >>)
    \o (IF ix.layers # << >> /\ ix.layers[1].kind = "metrics"
        THEN << [layer |-> "metrics", what |-> "Shutdown", sink |-> ix.layers[1].sink,
                 ctx |-> << >>, name |-> ""] >>
        ELSE << >>)

\* the calls IndexerWithMetrics(ix, m) makes on metrics sinks: metrics.New(8080)
\* for a nil m, and none on the sink it replaces
MetricsConstructorCalls(ix, m, newFails) ==
    IF ix # NoInst /\ m = "nil"
    THEN << [layer |-> "metrics", what |-> "New", sink |-> "prom8080",
             ctx |-> << >>, name |-> ""] >>
    ELSE << >>

\* newFails: metrics.New(8080) reports an error
IndexerWithMetrics(ix, m, newFails) ==
    IF ix = NoInst THEN NoOp
    ELSE IF m = "nil" /\ newFails THEN ix
    ELSE Decorate(ix, "metrics", IF m = "nil" THEN "prom8080" ELSE m)

\* IndexerWithTrace without its nil test
IndexerWithTrace_NoNilTest(ix, tracer) ==
    Decorate(ix, "trace", IF tracer = "nil" THEN "noopTracer" ELSE tracer)

IndexerWithTrace(ix, tracer) ==
    IF ix = NoInst THEN NoOp
    ELSE Decorate(ix, "trace", IF tracer = "nil" THEN "noopTracer" ELSE tracer)

---------------------------------------------------------------------------
(* Calls through a stack.  A call yields the returned values and the        *)
(* observations made on the way, in order.                                 *)

\* an observation: a call on a sink, the delegate or the backend; name is the
\* name given to a span that is started
Ev(layer, what, sink, ctx) ==
    [layer |-> layer, what |-> what, sink |-> sink, ctx |-> ctx, name |-> ""]

\* the context of a call that takes none
NoCtx == << >>

\* the release call on a metrics sink: v.Shutdown(ctx) or v.Close()
ReleaseEv(sink, ctx) ==
    IF SinkRelease(sink) = "none" THEN << >>
    ELSE << Ev("metrics", SinkRelease(sink), sink,
               IF SinkRelease(sink) = "Close" THEN NoCtx ELSE ctx) >>
Out(ret, ev) == [ret |-> ret, ev |-> ev]
ErrRet(err) == Ret(<< >>, TRUE, err)

\* the names of the spans: i.tracer.Start(ctx, "search" / "insert" / "delete")
SpanName(op) ==
    CASE op = "Search" -> "search" [] op = "Insert" -> "insert" [] OTHER -> "delete"

\* i.tracer.Start(ctx, name, ...)
SpanStart(sink, ctx, op) == [Ev("trace", "start", sink, ctx) EXCEPT !.name = SpanName(op)]

\* a tracer starting its span from a context of its own
SpanCtx_FromBackground(ctx) == << "background", "span" >>

\* ctx, span := i.tracer.Start(ctx, ...): the context carrying the span
SpanCtx(ctx) == Append(ctx, "span")

\* the first call the base makes on its backend, with the context it hands it:
\* db.QueryContext(ctx, ...), db.BeginTx(ctx, nil), db.Close()
BackendCalls(base, op, ctx) ==
    IF base # "index" THEN << >>
    ELSE CASE op = "Search"   -> << Ev("backend", "QueryContext", "db", ctx) >>
           [] op = "Shutdown" -> << Ev("backend", "Close", "db", NoCtx) >>
           [] OTHER           -> << Ev("backend", "BeginTx", "db", ctx) >>

RECURSIVE Through(_, _, _, _, _)

\* a logging decorator that writes its starting line once the delegate returned
LoggedSearch_LogsAfter(sink, rest, base, x, d) ==
    LET inner == Through(rest, base, "Search", x, d)
    IN  Out(inner.ret,
            inner.ev \o << Ev("log", "info", sink, x.ctx) >>
            \o (IF inner.ret.err # NilErr
                THEN << Ev("log", "warn", sink, x.ctx) >> ELSE << >>))

\* loggedIndexer.Search
LoggedSearch(sink, rest, base, x, d) ==
    LET inner == Through(rest, base, "Search", x, d)
    IN  Out(inner.ret,
            << Ev("log", "info", sink, x.ctx) >> \o inner.ev
            \o (IF inner.ret.err # NilErr
                THEN << Ev("log", "warn", sink, x.ctx) >> ELSE << >>))

\* a logging decorator that logs the delegate's error and returns nil
LoggedExec_SwallowsError(sink, rest, base, op, x, d) ==
    LET inner == Through(rest, base, op, x, d)
    IN  Out(ErrRet(NilErr), << Ev("log", "info", sink, x.ctx) >> \o inner.ev
            \o (IF inner.ret.err # NilErr
                THEN << Ev("log", "warn", sink, x.ctx) >> ELSE << >>))

\* loggedIndexer.Insert / Delete / Shutdown
LoggedExec(sink, rest, base, op, x, d) ==
    LET inner == Through(rest, base, op, x, d)
    IN  IF inner.ret.err # NilErr
        THEN Out(ErrRet(inner.ret.err),
                 << Ev("log", "info", sink, x.ctx) >> \o inner.ev
                 \o << Ev("log", "warn", sink, x.ctx) >>)
        ELSE Out(ErrRet(NilErr), << Ev("log", "info", sink, x.ctx) >> \o inner.ev)

\* a metrics decorator that releases its sink when the delegate fails
MetricsRecord_ReleasesOnError(sink, rest, base, op, x, d) ==
    LET inner == Through(rest, base, op, x, d)
    IN  Out(inner.ret,
            << Ev("metrics", "total", sink, x.ctx) >> \o inner.ev
            \o (IF inner.ret.err # NilErr
                THEN << Ev("metrics", "failed", sink, x.ctx) >> \o ReleaseEv(sink, x.ctx)
                ELSE << >>)
            \o << Ev("metrics", "latency", sink, x.ctx) >>)

\* metricsIndexer.Search / Insert / Delete
MetricsRecord(sink, rest, base, op, x, d) ==
    LET inner == Through(rest, base, op, x, d)
    IN  Out(inner.ret,
            << Ev("metrics", "total", sink, x.ctx) >> \o inner.ev
            \o (IF inner.ret.err # NilErr
                THEN << Ev("metrics", "failed", sink, x.ctx) >> ELSE << >>)
            \o << Ev("metrics", "latency", sink, x.ctx) >>)

\* a metrics decorator that returns the sink's release error at once
MetricsShutdown_StopsOnReleaseError(sink, rest, base, x, d) ==
    LET released == SinkRelease(sink) # "none"
        err == IF released /\ sink \in x.failing
               THEN Err("release failed: " \o sink) ELSE NilErr
        inner == Through(rest, base, "Shutdown", x, d)
        relEv == ReleaseEv(sink, x.ctx)
    IN  IF err # NilErr THEN Out(ErrRet(err), relEv)
        ELSE Out(ErrRet(ErrorsJoin(inner.ret.err, err)), relEv \o inner.ev)

\* metricsIndexer.Shutdown: the sink's release first, then the delegate
MetricsShutdown(sink, rest, base, x, d) ==
    LET released == SinkRelease(sink) # "none"
        err == IF released /\ sink \in x.failing
               THEN Err("release failed: " \o sink) ELSE NilErr
        inner == Through(rest, base, "Shutdown", x, d)
    IN  Out(ErrRet(ErrorsJoin(inner.ret.err, err)), ReleaseEv(sink, x.ctx) \o inner.ev)

\* tracedIndexer.Search
TracedSearch(sink, rest, base, x, d) ==
    LET inner == Through(rest, base, "Search", [x EXCEPT !.ctx = SpanCtx(x.ctx)], d)
    IN  Out(inner.ret,
            << SpanStart(sink, x.ctx, "Search") >> \o inner.ev
            \o (IF inner.ret.err # NilErr
                THEN << Ev("trace", "status", sink, x.ctx),
                        Ev("trace", "record", sink, x.ctx) >>
                ELSE << Ev("trace", "num_results", sink, x.ctx) >>)
            \o << Ev("trace", "end", sink, x.ctx) >>)

\* a tracing decorator that returns a delegate's error without ending the span
TracedExec_NoEndOnError(sink, rest, base, op, x, d) ==
    LET inner == Through(rest, base, op, [x EXCEPT !.ctx = SpanCtx(x.ctx)], d)
    IN  Out(ErrRet(inner.ret.err),
            << SpanStart(sink, x.ctx, op) >> \o inner.ev
            \o (IF inner.ret.err # NilErr
                THEN << Ev("trace", "status", sink, x.ctx),
                        Ev("trace", "record", sink, x.ctx) >>
                ELSE << Ev("trace", "end", sink, x.ctx) >>))

\* tracedIndexer.Insert / Delete
TracedExec(sink, rest, base, op, x, d) ==
    LET inner == Through(rest, base, op, [x EXCEPT !.ctx = SpanCtx(x.ctx)], d)
    IN  Out(ErrRet(inner.ret.err),
            << SpanStart(sink, x.ctx, op) >> \o inner.ev
            \o (IF inner.ret.err # NilErr
                THEN << Ev("trace", "status", sink, x.ctx),
                        Ev("trace", "record", sink, x.ctx) >>
                ELSE << >>)
            \o << Ev("trace", "end", sink, x.ctx) >>)

\* tracedIndexer.Shutdown
TracedShutdown(sink, rest, base, x, d) == Through(rest, base, "Shutdown", x, d)

\* the method of the outermost value: a decorator's, or the base's, whose
\* returned values are d
Through(layers, base, op, x, d) ==
    IF layers = << >>
    THEN Out(d, << Ev("base", op, base, x.ctx) >> \o BackendCalls(base, op, x.ctx))
    ELSE LET l == Head(layers)
             rest == Tail(layers)
         IN  CASE l.kind = "log" /\ op = "Search" -> LoggedSearch(l.sink, rest, base, x, d)
               [] l.kind = "log" /\ op # "Search" -> LoggedExec(l.sink, rest, base, op, x, d)
               [] l.kind = "metrics" /\ op # "Shutdown" ->
                     MetricsRecord(l.sink, rest, base, op, x, d)
               [] l.kind = "metrics" /\ op = "Shutdown" ->
                     MetricsShutdown(l.sink, rest, base, x, d)
               [] l.kind = "trace" /\ op = "Search" -> TracedSearch(l.sink, rest, base, x, d)
               [] l.kind = "trace" /\ op = "Shutdown" ->
                     TracedShutdown(l.sink, rest, base, x, d)
               [] OTHER -> TracedExec(l.sink, rest, base, op, x, d)

---------------------------------------------------------------------------
(* Config and New                                                          *)

\* the zero Config
ZeroConfig == [uri |-> "", logHandler |-> "nil", metrics |-> "nil", tracer |-> "nil"]

Opt(name, val) == [opt |-> name, val |-> val]

\* logger.Handler() of the *slog.Logger a caller passes to WithLogger
HandlerOf(logger) == IF logger = "logger2" THEN "h2" ELSE "nil"

Options ==
    { Opt("WithURI", "index.db"), Opt("WithLogger", "logger2") }
    \cup { Opt("WithLogHandler", h) : h \in LogHandlers }
    \cup { Opt("WithMetrics", m) : m \in MetricsSinks }
    \cup { Opt("WithTrace", t) : t \in Tracers }

\* options of which WithLogger also clears the metrics sink
ApplyOption_LoggerClearsMetrics(config, o) ==
    CASE o.opt = "WithURI"        -> [config EXCEPT !.uri = o.val]
      [] o.opt = "WithLogger"     -> [config EXCEPT !.logHandler = HandlerOf(o.val),
                                                    !.metrics = "nil"]
      [] o.opt = "WithLogHandler" -> [config EXCEPT !.logHandler = o.val]
      [] o.opt = "WithMetrics"    -> [config EXCEPT !.metrics = o.val]
      [] OTHER                    -> [config EXCEPT !.tracer = o.val]

\* the function an option registers, applied to a Config
ApplyOption(config, o) ==
    CASE o.opt = "WithURI"        -> [config EXCEPT !.uri = o.val]
      [] o.opt = "WithLogger"     -> [config EXCEPT !.logHandler = HandlerOf(o.val)]
      [] o.opt = "WithLogHandler" -> [config EXCEPT !.logHandler = o.val]
      [] o.opt = "WithMetrics"    -> [config EXCEPT !.metrics = o.val]
      [] OTHER                    -> [config EXCEPT !.tracer = o.val]

\* cfg.New[Config](opts...): the options applied in order to the zero Config
RECURSIVE ApplyOptions(_, _, _)
ApplyOptions(config, opts, idx) ==
    IF idx > Len(opts) THEN config
    ELSE ApplyOptions(ApplyOption(config, opts[idx]), opts, idx + 1)

CfgNew(opts) == ApplyOptions(ZeroConfig, opts, 1)

\* the three conditional decorations of New, in the order of the code
WithConfiguredLogs(ix, config) ==
    IF config.logHandler # "nil" THEN IndexerWithLogs(ix, config.logHandler) ELSE ix

WithConfiguredMetrics(ix, config) ==
    IF config.metrics # "nil" THEN IndexerWithMetrics(ix, config.metrics, FALSE) ELSE ix

WithConfiguredTrace(ix, config) ==
    IF config.tracer # "nil" THEN IndexerWithTrace(ix, config.tracer) ELSE ix

\* New returning the nil Indexer with the construction error
New_NilOnError(config, r) ==
    IF r.err # NilErr
    THEN [indexer |-> NoInst, err |-> r.err]
    ELSE [indexer |-> WithConfiguredTrace(
                         WithConfiguredMetrics(
                            WithConfiguredLogs(IndexInst, config), config), config),
          err |-> NilErr]

\* New applying the trace decorator before the metrics decorator
New_TraceBeforeMetrics(config, r) ==
    IF r.err # NilErr
    THEN [indexer |-> NoOp, err |-> r.err]
    ELSE [indexer |-> WithConfiguredMetrics(
                         WithConfiguredTrace(
                            WithConfiguredLogs(IndexInst, config), config), config),
          err |-> NilErr]

\* New(attributes, opts...): r is what NewIndex(config.uri, attributes...) returned
New(config, r) ==
    IF r.err # NilErr
    THEN [indexer |-> NoOp, err |-> r.err]
    ELSE [indexer |-> WithConfiguredTrace(
                         WithConfiguredMetrics(
                            WithConfiguredLogs(IndexInst, config), config), config),
          err |-> NilErr]

---------------------------------------------------------------------------
(* SpecMetrics: callers going through metricsIndexer.Search / Insert /      *)
(* Delete of one metrics decorator over the Prometheus sink, step by step,  *)
(* so that the calls of several goroutines interleave.                     *)

MetricOps == { "Search", "Insert", "Delete" }

Callers == 1..MaxCallers

ZeroCounters == [total |-> 0, failed |-> 0, latency |-> 0, exemplars |-> 0]

\* Metrics.IncSearchesTotal / IncInsertsTotal / IncDeletesTotal
IncTotal(cs, op) == [cs EXCEPT ![op].total = @ + 1]

\* Metrics.IncSearchesFailed / IncInsertsFailed / IncDeletesFailed
IncFailed(cs, op) == [cs EXCEPT ![op].failed = @ + 1]

\* Metrics.ObserveSearchLatency / ObserveInsertLatency / ObserveDeleteLatency:
\* one observation, with an exemplar when the context carries a valid span
ObserveLatency(cs, op, traced) ==
    IF traced
    THEN [cs EXCEPT ![op].latency = @ + 1, ![op].exemplars = @ + 1]
    ELSE [cs EXCEPT ![op].latency = @ + 1]

\* a decorator that counts every returned call as failed
CheckErr_CountsEveryCall(cs, op, err) == IncFailed(cs, op)

\* if err != nil { i.metrics.Inc...Failed() }
CheckErr(cs, op, err) == IF err # NilErr THEN IncFailed(cs, op) ELSE cs

\* what one call has added to the sink so far
NoIncs == [total |-> 0, failed |-> 0, latency |-> 0]

IdleCaller == [pc |-> "idle", op |-> "none", traced |-> FALSE, err |-> NilErr, incs |-> NoIncs]

DelegateErrors == { NilErr, Err("delegate failed") }

InitMetrics ==
    /\ counters = [op \in MetricOps |-> ZeroCounters]
    /\ callers = [c \in Callers |-> IdleCaller]
    /\ calls = [op \in MetricOps |-> [started |-> 0, errored |-> 0]]

Started == calls["Search"].started + calls["Insert"].started + calls["Delete"].started

\* start := time.Now(); i.metrics.Inc...Total()
MetricsStart ==
    /\ Started < MaxMetricCalls
    /\ \E c \in Callers, op \in MetricOps, traced \in BOOLEAN :
          /\ callers[c].pc = "idle"
          /\ counters' = IncTotal(counters, op)
          /\ callers' = [callers EXCEPT ![c] =
                 [pc |-> "delegate", op |-> op, traced |-> traced, err |-> NilErr,
                  incs |-> [NoIncs EXCEPT !.total =
                               counters'[op].total - counters[op].total]]]
          /\ calls' = [calls EXCEPT ![op].started = @ + 1]
    /\ UNCHANGED <<idxVars, inst, held, call, hist, port>>

\* err = i.indexer.Search / Insert / Delete (...): the delegate returns
MetricsDelegate ==
    /\ \E c \in Callers, err \in DelegateErrors :
          /\ callers[c].pc = "delegate"
          /\ callers' = [callers EXCEPT ![c].pc = "check", ![c].err = err]
          /\ calls' = [calls EXCEPT ![callers[c].op].errored =
                          IF err # NilErr THEN @ + 1 ELSE @]
    /\ UNCHANGED counters
    /\ UNCHANGED <<idxVars, inst, held, call, hist, port>>

\* if err != nil { i.metrics.Inc...Failed() }
MetricsCheckErr ==
    /\ \E c \in Callers :
          /\ callers[c].pc = "check"
          /\ counters' = CheckErr(counters, callers[c].op, callers[c].err)
          /\ callers' = [callers EXCEPT ![c].pc = "observe",
                 ![c].incs.failed = @ + counters'[callers[c].op].failed
                                      - counters[callers[c].op].failed]
    /\ UNCHANGED calls
    /\ UNCHANGED <<idxVars, inst, held, call, hist, port>>

\* i.metrics.Observe...Latency(ctx, time.Since(start))
MetricsObserve ==
    /\ \E c \in Callers :
          /\ callers[c].pc = "observe"
          /\ counters' = ObserveLatency(counters, callers[c].op, callers[c].traced)
          /\ callers' = [callers EXCEPT ![c].pc = "return",
                 ![c].incs.latency = @ + counters'[callers[c].op].latency
                                       - counters[callers[c].op].latency]
    /\ UNCHANGED calls
    /\ UNCHANGED <<idxVars, inst, held, call, hist, port>>

\* return res, err
MetricsReturn ==
    /\ \E c \in Callers :
          /\ callers[c].pc = "return"
          /\ callers' = [callers EXCEPT ![c] = IdleCaller]
    /\ UNCHANGED <<counters, calls>>
    /\ UNCHANGED <<idxVars, inst, held, call, hist, port>>

NextMetrics ==
    MetricsStart \/ MetricsDelegate \/ MetricsCheckErr \/ MetricsObserve \/ MetricsReturn

---------------------------------------------------------------------------
(* SpecDeco: constructors, New, and calls through a stack.  The *Index at   *)
(* the bottom of a stack is represented by the values its methods return   *)
(* over SampleTables, and by dbOpen.                                       *)

SampleRow == [key |-> <<"b">>, val |-> <<"gold">>]
SampleTables == { << >>, << SampleRow, [key |-> <<"a">>, val |-> <<"gold">>] >> }
SampleAttrs == << SampleRow >>
SampleKeys == << <<"b">> >>

\* the caller's context of a call through a stack
RequestCtx == << "request" >>

NoRet == Ret(<< >>, TRUE, NilErr)

\* values the base's Search can return
BaseSearchRets(base, open) ==
    IF base = "noop" THEN { NoRet }
    ELSE UNION { { IndexSearch(t, open, term, f) :
                     f \in SearchFaults(Len(QueryRows(t, term))) } :
                 t \in SampleTables, term \in Terms }

\* values the base's Insert / Delete can return
BaseExecRets(base, op, open) ==
    IF base = "noop" THEN { NoRet }
    ELSE IF op = "Insert"
    THEN { ErrRet(IndexInsert(<< >>, open, SampleAttrs, f).err) :
             f \in TxFaults(Len(SampleAttrs), "request") }
    ELSE { ErrRet(IndexDelete(t, open, SampleKeys, f).err) :
             t \in SampleTables, f \in TxFaults(Len(SampleKeys), "request") }

\* values the base's Shutdown can return
BaseShutdownRets(base) ==
    IF base = "noop" THEN { NoRet }
    ELSE { ErrRet(IndexShutdown(closeFails)) : closeFails \in BOOLEAN }

\* the sinks of the stack that Shutdown releases
Releasable(layers) ==
    { layers[i].sink : i \in { j \in DOMAIN layers :
          layers[j].kind = "metrics" /\ SinkRelease(layers[j].sink) # "none" } }

Call(op, input, sink, opts, fault, d, ret, ev) ==
    [op |-> op, input |-> input, sink |-> sink, opts |-> opts, fault |-> fault,
     d |-> d, ret |-> ret, ev |-> ev]

NoCall == Call("none", NoInst, "nil", << >>, NoFault, NoRet, NoRet, << >>)

InitDeco ==
    /\ inst = NoInst
    /\ held = NoInst
    /\ call = NoCall
    /\ hist = << >>
    /\ port = "free"
    /\ InitMetrics

\* attribute lists passed to New
NewAttrs == { << >>, SampleAttrs }

DoNew ==
    /\ inst = NoInst /\ call = NoCall /\ port # "panic"
    /\ \E opts \in SeqsUpTo(Options, MaxOpts), attrs \in NewAttrs, closeFails \in BOOLEAN :
       LET config == CfgNew(opts)
       IN  \E prior \in (IF config.uri = "" THEN {<< >>} ELSE Persisted) :
           \E of \in OpenFaults(prior # << >>), lf \in TxFaults(Len(attrs), "background") :
              \* one representative of the inputs that are not consulted
              /\ (of.kind # "none" \/ Len(attrs) = 0) => lf = NoFault
              /\ (of.kind # "none" \/ lf = NoFault) => ~closeFails
              /\ LET r == NewIndex(config.uri, prior, attrs, of, lf, closeFails)
                     n == New(config, r)
                 IN  /\ inst' = n.indexer
                     /\ dbOpen' = r.dbOpen
                     /\ call' = Call("New", NoInst, "nil", opts,
                                     IF of.kind # "none" THEN of ELSE lf,
                                     ErrRet(r.err), ErrRet(n.err), << >>)
    /\ held' = NoInst
    /\ UNCHANGED <<phase, table, last>>
    /\ UNCHANGED <<hist, port, mxVars>>

DoNoOp ==
    /\ inst = NoInst /\ call = NoCall /\ port # "panic"
    /\ inst' = NoOp
    /\ held' = NoInst
    /\ call' = Call("NoOp", NoInst, "nil", << >>, NoFault, NoRet, NoRet, << >>)
    /\ UNCHANGED idxVars
    /\ UNCHANGED <<hist, port, mxVars>>

DoIndexerWithLogs ==
    /\ call = NoCall /\ port # "panic"
    /\ \E handler \in LogHandlers :
          /\ Len(IndexerWithLogs(inst, handler).layers) <= MaxDepth
          /\ inst' = IndexerWithLogs(inst, handler)
          /\ held' = HeldAfter(inst, "log", handler)
          /\ call' = Call("IndexerWithLogs", inst, handler, << >>, NoFault,
                          NoRet, NoRet, << >>)
    /\ UNCHANGED idxVars
    /\ UNCHANGED <<hist, port, mxVars>>

DoIndexerWithMetrics ==
    /\ call = NoCall /\ port # "panic"
    /\ \E m \in MetricsSinks, newFails \in BOOLEAN :
          /\ newFails => m = "nil" /\ inst # NoInst
          /\ Len(IndexerWithMetrics(inst, m, newFails).layers) <= MaxDepth
          /\ inst' = IndexerWithMetrics(inst, m, newFails)
          /\ held' = HeldAfter(inst, "metrics", m)
          /\ call' = Call("IndexerWithMetrics", inst, m, << >>,
                          IF newFails THEN [kind |-> "metrics.New", at |-> 0, mode |-> "none"]
                          ELSE NoFault,
                          NoRet, NoRet, MetricsConstructorCalls(inst, m, newFails))
          /\ port' = PortAfterConstructor(port, inst, m, newFails)
    /\ UNCHANGED idxVars
    /\ UNCHANGED <<hist, mxVars>>

DoIndexerWithTrace ==
    /\ call = NoCall /\ port # "panic"
    /\ \E tracer \in Tracers :
          /\ Len(IndexerWithTrace(inst, tracer).layers) <= MaxDepth
          /\ inst' = IndexerWithTrace(inst, tracer)
          /\ held' = HeldAfter(inst, "trace", tracer)
          /\ call' = Call("IndexerWithTrace", inst, tracer, << >>, NoFault,
                          NoRet, NoRet, << >>)
    /\ UNCHANGED idxVars
    /\ UNCHANGED <<hist, port, mxVars>>

\* the instances the caller can call: the one the last constructor returned
\* and the one the caller passed to it
Targets == { inst, held } \ { NoInst }

\* the record of op called on the instance ix, the base returning d
CallThrough(ix, op, d) ==
    LET out == Through(ix.layers, ix.base, op,
                       [ctx |-> RequestCtx, failing |-> {}], d)
    IN  Call(op, ix, "nil", << >>, NoFault, d, out.ret, out.ev)

DoDecoSearch ==
    /\ call = NoCall /\ port # "panic"
    /\ \E ix \in Targets : \E d \in BaseSearchRets(ix.base, dbOpen) :
          call' = CallThrough(ix, "Search", d)
    /\ UNCHANGED <<inst, held, idxVars>>
    /\ UNCHANGED <<hist, port, mxVars>>

DoDecoInsert ==
    /\ call = NoCall /\ port # "panic"
    /\ \E ix \in Targets : \E d \in BaseExecRets(ix.base, "Insert", dbOpen) :
          call' = CallThrough(ix, "Insert", d)
    /\ UNCHANGED <<inst, held, idxVars>>
    /\ UNCHANGED <<hist, port, mxVars>>

DoDecoDelete ==
    /\ call = NoCall /\ port # "panic"
    /\ \E ix \in Targets : \E d \in BaseExecRets(ix.base, "Delete", dbOpen) :
          call' = CallThrough(ix, "Delete", d)
    /\ UNCHANGED <<inst, held, idxVars>>
    /\ UNCHANGED <<hist, port, mxVars>>

DoDecoShutdown ==
    /\ call = NoCall /\ port # "panic"
    /\ \E ix \in Targets :
          /\ ix.base = "index" => dbOpen
          /\ \E d \in BaseShutdownRets(ix.base), failing \in SUBSET Releasable(ix.layers) :
                LET out == Through(ix.layers, ix.base, "Shutdown",
                                   [ctx |-> RequestCtx, failing |-> failing], d)
                IN  call' = Call("Shutdown", ix, "nil", << >>,
                                 IF failing = {} THEN NoFault
                                 ELSE [kind |-> "release", at |-> 0, mode |-> "none"],
                                 d, out.ret, out.ev)
          /\ dbOpen' = IF ix.base = "index" THEN FALSE ELSE dbOpen
          /\ port' = PortAfterShutdown(port, ix.layers)
    /\ UNCHANGED <<inst, held, phase, table, last>>
    /\ UNCHANGED <<hist, mxVars>>

\* the caller has taken the values the call returned
DecoReturn ==
    /\ call # NoCall /\ port # "panic"
    /\ call' = NoCall
    /\ UNCHANGED <<inst, held, idxVars>>
    /\ UNCHANGED <<hist, port, mxVars>>

NextDeco ==
    \/ DoNew \/ DoNoOp
    \/ DoIndexerWithLogs \/ DoIndexerWithMetrics \/ DoIndexerWithTrace
    \/ DoDecoSearch \/ DoDecoInsert \/ DoDecoDelete \/ DoDecoShutdown
    \/ DecoReturn

---------------------------------------------------------------------------
(* Spec: the Index over its backend.                                       *)

Last(op, ctx, term, attrs, keys, fault, pre, res, resNil, err, txLeft) ==
    [op |-> op, ctx |-> ctx, term |-> term, attrs |-> attrs, keys |-> keys,
     fault |-> fault, pre |-> pre, res |-> res, resNil |-> resNil, err |-> err,
     txLeft |-> txLeft]

\* no call is in progress or awaiting its caller
Idle == Last("none", "background", << >>, << >>, << >>, NoFault, << >>,
             << >>, TRUE, NilErr, FALSE)

InitIdx ==
    /\ phase = "none"
    /\ table = << >>
    /\ dbOpen = FALSE
    /\ last = Idle

DoNewIndex ==
    /\ phase = "none" /\ last = Idle
    /\ \E uri \in Uris, attrs \in SeqsUpTo(Rows, MaxBatch), closeFails \in BOOLEAN :
       \E prior \in (IF uri = "" THEN {<< >>} ELSE Persisted),
          exists \in (IF uri = "" THEN {FALSE} ELSE BOOLEAN) :
       \E of \in OpenFaults(exists), lf \in TxFaults(Len(attrs), "background") :
          /\ exists \/ prior = << >>
          /\ Len(prior) + Len(attrs) <= MaxRows
          \* one representative of the inputs that are not consulted
          /\ (of.kind # "none" \/ Len(attrs) = 0) => lf = NoFault
          /\ (of.kind # "none" \/ lf = NoFault) => ~closeFails
          /\ LET r == NewIndex(uri, prior, attrs, of, lf, closeFails)
             IN  /\ phase' = IF r.ok THEN "open" ELSE "failed"
                 /\ table' = r.table
                 /\ dbOpen' = r.dbOpen
                 /\ last' = Last("NewIndex", "background", << >>, attrs, << >>,
                                 IF of.kind # "none" THEN of ELSE lf, prior,
                                 << >>, TRUE, r.err, FALSE)
    /\ UNCHANGED decoVars

DoSearch ==
    /\ phase \in {"open", "closed"} /\ last = Idle
    /\ \E ctx \in Ctxs, term \in Terms :
       \E fault \in SearchFaults(Len(QueryRows(table, term))) :
          /\ dbOpen \/ fault = NoFault
          /\ LET r == IndexSearch(table, dbOpen, term, fault)
             IN  last' = Last("Search", ctx, term, << >>, << >>, fault, table,
                              r.res, r.resNil, r.err, FALSE)
    /\ UNCHANGED <<phase, table, dbOpen>>
    /\ UNCHANGED decoVars

DoInsert ==
    /\ phase \in {"open", "closed"} /\ last = Idle
    /\ \E ctx \in Ctxs, attrs \in SeqsUpTo(Rows, MaxBatch) :
       \E fault \in TxFaults(Len(attrs), ctx) :
          /\ Len(table) + Len(attrs) <= MaxRows
          /\ dbOpen \/ fault = NoFault
          /\ LET r == IndexInsert(table, dbOpen, attrs, fault)
             IN  /\ table' = r.table
                 /\ last' = Last("Insert", ctx, << >>, attrs, << >>, fault, table,
                                 << >>, TRUE, r.err, r.txLeft)
    /\ UNCHANGED <<phase, dbOpen>>
    /\ UNCHANGED decoVars

DoDelete ==
    /\ phase \in {"open", "closed"} /\ last = Idle
    /\ \E ctx \in Ctxs, keys \in SeqsUpTo(Keys, MaxKeys) :
       \E fault \in TxFaults(Len(keys), ctx) :
          /\ dbOpen \/ fault = NoFault
          /\ LET r == IndexDelete(table, dbOpen, keys, fault)
             IN  /\ table' = r.table
                 /\ last' = Last("Delete", ctx, << >>, << >>, keys, fault, table,
                                 << >>, TRUE, r.err, r.txLeft)
    /\ UNCHANGED <<phase, dbOpen>>
    /\ UNCHANGED decoVars

DoShutdown ==
    /\ phase = "open" /\ last = Idle
    /\ \E ctx \in Ctxs, closeFails \in BOOLEAN :
          last' = Last("Shutdown", ctx, << >>, << >>, << >>,
                       IF closeFails THEN [kind |-> "close", at |-> 0, mode |-> "none"]
                       ELSE NoFault,
                       table, << >>, TRUE, IndexShutdown(closeFails), FALSE)
    /\ phase' = "closed"
    /\ dbOpen' = FALSE
    /\ UNCHANGED table
    /\ UNCHANGED decoVars

\* the caller has taken the values the call returned
Return ==
    /\ last # Idle
    /\ last' = Idle
    /\ UNCHANGED <<phase, table, dbOpen>>
    /\ UNCHANGED decoVars

Init == InitIdx /\ InitDeco

Next == DoNewIndex \/ DoSearch \/ DoInsert \/ DoDelete \/ DoShutdown \/ Return

Spec == Init /\ [][Next]_vars

SpecDeco == Init /\ [][NextDeco]_vars

SpecMetrics == Init /\ [][NextMetrics]_vars


---------------------------------------------------------------------------
(* SpecNoOp: calls on one no-op Indexer.                                   *)

\* a no-op Indexer that refuses calls once it was shut down
NoOpCall_ClosedAfterShutdown(op, history) ==
    IF \E i \in DOMAIN history : history[i] = "Shutdown"
    THEN ErrRet(Err("indexer is shut down")) ELSE NoRet

\* noOpIndexer.Search / Insert / Delete / Shutdown: an empty struct, whose
\* methods return nil whatever was called before
NoOpCall(op, history) == NoRet

InitNoOp ==
    /\ InitIdx
    /\ inst = NoOp /\ held = NoInst /\ call = NoCall /\ hist = << >>
    /\ port = "free"
    /\ InitMetrics

\* the record of op called on the no-op Indexer
NoOpRecord(op) ==
    Call(op, inst, "nil", << >>, NoFault, NoRet, NoOpCall(op, hist), << >>)

NoOpSearch ==
    /\ call = NoCall /\ Len(hist) < MaxCalls
    /\ call' = NoOpRecord("Search")
    /\ hist' = Append(hist, "Search")
    /\ UNCHANGED <<inst, held, port, mxVars, idxVars>>

NoOpInsert ==
    /\ call = NoCall /\ Len(hist) < MaxCalls
    /\ call' = NoOpRecord("Insert")
    /\ hist' = Append(hist, "Insert")
    /\ UNCHANGED <<inst, held, port, mxVars, idxVars>>

NoOpDelete ==
    /\ call = NoCall /\ Len(hist) < MaxCalls
    /\ call' = NoOpRecord("Delete")
    /\ hist' = Append(hist, "Delete")
    /\ UNCHANGED <<inst, held, port, mxVars, idxVars>>

NoOpShutdown ==
    /\ call = NoCall /\ Len(hist) < MaxCalls
    /\ call' = NoOpRecord("Shutdown")
    /\ hist' = Append(hist, "Shutdown")
    /\ UNCHANGED <<inst, held, port, mxVars, idxVars>>

NoOpReturn ==
    /\ call # NoCall
    /\ call' = NoCall
    /\ UNCHANGED <<inst, held, hist, port, mxVars, idxVars>>

NextNoOp == NoOpSearch \/ NoOpInsert \/ NoOpDelete \/ NoOpShutdown \/ NoOpReturn

SpecNoOp == InitNoOp /\ [][NextNoOp]_vars

---------------------------------------------------------------------------
(* Claims about the Index (checked under Spec).                            *)

\* the error the failing backend call of the last call reported
BackendFailure ==
    CASE last.fault.kind = "query"  -> Err("query failed")
      [] last.fault.kind = "next"   -> Err("rows iteration failed")
      [] last.fault.kind = "scan"   -> Err("scan failed")
      [] last.fault.kind = "begin"  -> Err("begin failed")
      [] last.fault.kind = "exec"   ->
            Err(IF last.fault.mode = "ctx" THEN "context canceled" ELSE "exec failed")
      [] last.fault.kind = "commit" -> CommitErr(last.fault)
      [] OTHER                      -> NilErr

\* the search term occurs in the value of the attribute
TermInValue(term, attr) == Tokenize(term) \subseteq Tokenize(attr.val)

KeysOf(rows) == [i \in DOMAIN rows |-> rows[i].key]
Range(f) == { f[i] : i \in DOMAIN f }

\* C1: a Search whose query executed without failure and yielded zero rows
\* returns a nil result and an error that errors.Is ErrNotFoundKeyword.
C1_EmptySearchIsNotFound ==
    (/\ last.op = "Search" /\ phase = "open"
     /\ last.fault = NoFault
     /\ QueryRows(last.pre, last.term) = << >>)
    => (/\ last.resNil /\ last.res = << >>
        /\ ErrorsIs(last.err, ErrNotFoundKeyword))

\* a Search over an index that holds rows, none matching, reported NotFound
C1_Witness ==
    /\ last.op = "Search" /\ phase = "open" /\ last.fault = NoFault
    /\ last.pre # << >>
    /\ QueryRows(last.pre, last.term) = << >>
    /\ ErrorsIs(last.err, ErrNotFoundKeyword)

\* C2: after a non-empty batch was inserted into an empty Index (NewIndex or
\* Insert), a Search whose term occurs in the values of a subset of the batch
\* returns exactly the attributes of that subset, in insertion order.
C2_SearchReturnsMatchingSubset ==
    (/\ last.op \in {"NewIndex", "Insert"} /\ phase = "open"
     /\ last.pre = << >> /\ last.attrs # << >>
     /\ last.fault = NoFault /\ last.err = NilErr)
    => \A term \in Terms :
         LET subset == SelectSeq(last.attrs, LAMBDA a : TermInValue(term, a))
             r == IndexSearch(table, TRUE, term, NoFault)
         IN  subset # << >> => (r.err = NilErr /\ r.res = subset)

\* what the batch of the last Insert / Delete does when all of it is applied
RECURSIVE DeleteAll(_, _, _)
DeleteAll(t, keys, idx) ==
    IF idx > Len(keys) THEN t
    ELSE DeleteAll(DeleteRows(t, keys[idx]), keys, idx + 1)

BatchApplied ==
    IF last.op = "Insert" THEN last.pre \o last.attrs
    ELSE DeleteAll(last.pre, last.keys, 1)

\* C3: Insert and Delete are all-or-nothing: when a row of the batch failed,
\* no effect of the batch is visible afterwards; when the call returns nil,
\* all of the batch's effects are visible.
C3_AllOrNothing ==
    (last.op \in {"Insert", "Delete"} /\ phase = "open")
    => /\ (last.fault.kind # "none" => table = last.pre)
       /\ (last.err = NilErr => table = BatchApplied)

\* C4: deleting the keys a Search returned removes exactly those entries: the
\* same Search returns none of them afterwards, and every entry whose key was
\* not passed to Delete is still returned by the searches that returned it.
C4_DeleteRemovesExactlySearched ==
    (/\ last.op = "Delete" /\ phase = "open"
     /\ last.fault = NoFault /\ last.err = NilErr
     /\ \E term \in Terms :
          LET r == IndexSearch(last.pre, TRUE, term, NoFault)
          IN  r.err = NilErr /\ last.keys = KeysOf(r.res))
    => /\ \A term \in Terms :
            LET r == IndexSearch(last.pre, TRUE, term, NoFault)
            IN  (r.err = NilErr /\ last.keys = KeysOf(r.res))
                => \A row \in Range(QueryRows(table, term)) :
                      row.key \notin Range(last.keys)
       /\ \A term \in Terms :
            \A row \in Range(QueryRows(last.pre, term)) :
               row.key \notin Range(last.keys)
               => row \in Range(QueryRows(table, term))

\* C5: Search surfaces every backend failure: a failed query, row iteration
\* or row decoding is returned as the error, never as ErrNotFoundKeyword and
\* never as a result list with a nil error.
C5_SearchSurfacesFailures ==
    (/\ last.op = "Search" /\ phase = "open"
     /\ last.fault.kind \in {"query", "next", "scan"})
    => (/\ last.err = BackendFailure
        /\ ~ErrorsIs(last.err, ErrNotFoundKeyword)
        /\ last.resNil)

\* C6: Insert and Delete return the error of the failing transaction call
\* verbatim: of BeginTx, of a row statement, of Commit; a failed commit is
\* never reported as nil nor replaced by the result of the rollback.
C6_TxFailurePropagatedVerbatim ==
    (/\ last.op \in {"Insert", "Delete"} /\ phase = "open"
     /\ last.fault.kind \in {"begin", "exec", "commit"})
    => last.err = BackendFailure

---------------------------------------------------------------------------
(* Claims about the decorators and New (checked under SpecDeco).           *)

Constructors == { "IndexerWithLogs", "IndexerWithMetrics", "IndexerWithTrace" }

KindOf(constructor) ==
    CASE constructor = "IndexerWithLogs"    -> "log"
      [] constructor = "IndexerWithMetrics" -> "metrics"
      [] OTHER                              -> "trace"

KindsOf(layers) == { layers[i].kind : i \in DOMAIN layers }

\* C7: Search, Insert and Delete through any stack of logging, metrics and
\* tracing decorators return exactly the result and the error the wrapped
\* instance returned.
C7_DecoratorsReturnDelegateValues ==
    (call.op \in {"Search", "Insert", "Delete"} /\ call.input.layers # << >>)
    => call.ret = call.d

\* an Insert that failed in the base, through all three kinds of decorator
C7_Witness ==
    /\ call.op = "Insert"
    /\ KindsOf(call.input.layers) = {"log", "metrics", "trace"}
    /\ call.d.err # NilErr
    /\ call.ret.err = call.d.err

\* C8 as claimed: decorating a nil or a no-op instance returns the no-op
\* variant itself, and Search, Insert, Delete and Shutdown through the result
\* return no matches and no error.
C8_DecoratingNothingStaysNothing ==
    /\ (call.op \in Constructors /\ call.input \in {NoInst, NoOp}) => inst = NoOp
    /\ (call.op \in {"Search", "Insert", "Delete", "Shutdown"}
        /\ call.input.base = "noop")
       => call.ret = NoRet

\* C8 amended: decorating nil returns the no-op variant; decorating a no-op
\* instance returns a layer of the constructor's kind around it (the no-op
\* itself only when the default metrics sink cannot be created); through a
\* decorated no-op Search returns nil, nil and Insert and Delete nil, and
\* Shutdown returns nil unless a metrics sink fails to shut down.
C8_DecoratedNoOp ==
    /\ (call.op \in Constructors /\ call.input = NoInst) => inst = NoOp
    /\ (call.op \in Constructors /\ call.input = NoOp)
       => IF call.fault.kind = "metrics.New" THEN inst = NoOp
          ELSE /\ inst.base = "noop" /\ Len(inst.layers) = 1
               /\ inst.layers[1].kind = KindOf(call.op)
               /\ inst.layers[1].sink # "nil"
               /\ call.sink # "nil" => inst.layers[1].sink = call.sink
    /\ (call.op \in {"Search", "Insert", "Delete"} /\ call.input.base = "noop")
       => call.ret = NoRet
    /\ (call.op = "Shutdown" /\ call.input.base = "noop")
       => /\ call.ret.resNil
          /\ (call.ret.err = NilErr) <=> (call.fault.kind # "release")

\* a constructor applied to the no-op variant returned a decorator around it
C8_Witness ==
    /\ call.op \in Constructors /\ call.input = NoOp
    /\ inst.base = "noop" /\ Len(inst.layers) = 1

\* C9: when backend construction fails inside New, New returns the no-op
\* Indexer, undecorated, with the construction error; when it succeeds, a nil
\* error and a non-nil Indexer; never a nil Indexer.
C9_NewFailsToNoOp ==
    call.op = "New"
    => /\ inst # NoInst
       /\ IF call.fault # NoFault
          THEN inst = NoOp /\ call.ret.err # NilErr /\ call.ret.err = call.d.err
          ELSE call.ret.err = NilErr /\ inst.base = "index"

\* New failed in the schema initialisation although a log sink was configured
C9_Witness ==
    /\ call.op = "New" /\ call.fault.kind = "init"
    /\ \E i \in DOMAIN call.opts : call.opts[i] = Opt("WithLogHandler", "h1")
    /\ inst = NoOp /\ call.ret.err # NilErr

\* the sink the options request for a field: that of the last option setting it
RECURSIVE Requested(_, _, _)
Requested(opts, names, idx) ==
    IF idx = 0 THEN "nil"
    ELSE IF opts[idx].opt \in names
         THEN (IF opts[idx].opt = "WithLogger" THEN "h2" ELSE opts[idx].val)
         ELSE Requested(opts, names, idx - 1)

\* C10: New layers the decorators in the fixed order log, metrics, trace
\* (trace outermost, log directly around the Index), one layer of a kind exactly
\* when its sink was configured, whatever the order of the options.
C10_NewLayersInFixedOrder ==
    (call.op = "New" /\ call.ret.err = NilErr)
    => /\ inst.base = "index"
       /\ inst.layers =
            SelectSeq(<< Layer("trace", Requested(call.opts, {"WithTrace"}, Len(call.opts))),
                         Layer("metrics", Requested(call.opts, {"WithMetrics"}, Len(call.opts))),
                         Layer("log", Requested(call.opts, {"WithLogger", "WithLogHandler"},
                                                Len(call.opts))) >>,
                      LAMBDA l : l.sink # "nil")

\* New with the options given in the order trace, metrics, log
C10_Witness ==
    /\ call.op = "New" /\ call.ret.err = NilErr
    /\ call.opts = << Opt("WithTrace", "t1"), Opt("WithMetrics", "m1"),
                      Opt("WithLogHandler", "h1") >>
    /\ Len(inst.layers) = 3

\* the sink a constructor uses for the sink the caller passed
SinkUsed(constructor, sink) ==
    IF sink # "nil" THEN sink
    ELSE CASE constructor = "IndexerWithLogs"    -> "stderrText"
           [] constructor = "IndexerWithMetrics" -> "prom8080"
           [] OTHER                              -> "noopTracer"

\* the last call applied a constructor to a decorator of its own kind
Redecorated ==
    /\ call.op \in Constructors
    /\ call.input.layers # << >>
    /\ Head(call.input.layers).kind = KindOf(call.op)

SameDepthAndDelegate ==
    /\ Len(inst.layers) = Len(call.input.layers)
    /\ Tail(inst.layers) = Tail(call.input.layers)
    /\ inst.base = call.input.base
    /\ Head(inst.layers).kind = KindOf(call.op)

\* C11 as claimed: a constructor applied to an instance whose outermost layer
\* is of its kind returns an instance of the same depth and delegate that uses
\* the newly supplied (or default) sink.
C11_RedecorationReplacesSink ==
    Redecorated
    => /\ SameDepthAndDelegate
       /\ Head(inst.layers).sink = SinkUsed(call.op, call.sink)

\* C11 amended: the same, except that IndexerWithMetrics with an absent sink
\* returns its input as it is, old sink included, when the default metrics
\* sink cannot be created.
C11_RedecorationKeepsDepth ==
    Redecorated
    => /\ SameDepthAndDelegate
       /\ Head(inst.layers).sink =
             IF call.fault.kind = "metrics.New" THEN Head(call.input.layers).sink
             ELSE SinkUsed(call.op, call.sink)

\* a log decorator under two other layers was given another handler
C11_Witness ==
    /\ Redecorated
    /\ call.op = "IndexerWithLogs"
    /\ Len(call.input.layers) = 3
    /\ Head(call.input.layers).sink # call.sink
    /\ Head(inst.layers).sink = "h1"
    /\ Len(inst.layers) = 3

\* the number of layers of a kind in a stack
RECURSIVE CountKind(_, _)
CountKind(layers, kind) ==
    IF layers = << >> THEN 0
    ELSE (IF Head(layers).kind = kind THEN 1 ELSE 0) + CountKind(Tail(layers), kind)

\* C12: after any sequence of constructor applications the stack holds at most
\* one layer of each decorator kind.
C12_OneLayerPerKind ==
    \A kind \in {"log", "metrics", "trace"} : CountKind(inst.layers, kind) <= 1

\* C13: re-decoration replaces the sink in place: the instance the caller
\* passed to the constructor is the instance returned, and its later calls
\* report to the new sink.
C13_RedecorationInPlace ==
    /\ (Redecorated /\ call.fault.kind # "metrics.New") => held = inst
    /\ (/\ call.op \in {"Search", "Insert", "Delete"}
        /\ call.input = held
        /\ held.layers # << >> /\ inst.layers # << >>
        /\ Head(held.layers).kind = Head(inst.layers).kind
        /\ Len(held.layers) = Len(inst.layers))
       => call.ev[1].sink = Head(inst.layers).sink

\* the number of observations of a call that satisfy Test
CountEv(ev, Test(_)) == Cardinality({ i \in DOMAIN ev : Test(ev[i]) })

MetricsSinksOf(layers) ==
    { layers[i].sink : i \in { j \in DOMAIN layers : layers[j].kind = "metrics" } }

\* the number of metrics layers of a stack that hold the sink
LayersHolding(layers, sink) ==
    Cardinality({ i \in DOMAIN layers :
                    layers[i].kind = "metrics" /\ layers[i].sink = sink })

\* C14: a Shutdown call on any stack of decorators over an Index closes the
\* backend connection exactly once, and invokes the release method of a
\* metrics sink exactly once when the sink has one (a default sink is a sink
\* of its own in each layer that created one), whatever the layers return.
C14_ShutdownReachesBackendOnce ==
    (call.op = "Shutdown" /\ call.input.base = "index")
    => /\ CountEv(call.ev, LAMBDA e : e.layer = "backend" /\ e.what = "Close") = 1
       /\ \A sink \in MetricsSinksOf(call.input.layers) :
             CountEv(call.ev, LAMBDA e : e.layer = "metrics" /\ e.sink = sink
                                         /\ e.what = SinkRelease(sink))
             = IF SinkRelease(sink) = "none" THEN 0
               ELSE IF sink = "prom8080" THEN LayersHolding(call.input.layers, sink)
               ELSE 1

\* a context derived from the caller's by at most n tracer.Start calls
DerivedCtx(ctx, n) ==
    /\ Len(ctx) >= 1 /\ Len(ctx) <= n + 1
    /\ ctx[1] = RequestCtx[1]
    /\ \A i \in 2..Len(ctx) : ctx[i] = "span"

RECURSIVE Spans(_, _)
Spans(ctx, n) == IF n = 0 THEN ctx ELSE Spans(SpanCtx(ctx), n - 1)

Operations == { "Search", "Insert", "Delete", "Shutdown" }

\* C15 as claimed: every layer hands on the caller's context unmodified, down
\* to every backend call.
C15_CallerContextEverywhere ==
    call.op \in Operations
    => \A i \in DOMAIN call.ev : call.ev[i].ctx = RequestCtx

\* C15 amended: the log and metrics decorators hand on the context they
\* receive; each tracing decorator hands Search, Insert and Delete the context
\* tracer.Start derived from it (Shutdown the context itself); the Index hands
\* the context it receives to its query or transaction; db.Close and a
\* metrics sink's Close take none.
C15_ContextDerivedFromCallers ==
    call.op \in Operations
    => LET traces == IF call.op = "Shutdown" THEN 0
                     ELSE CountKind(call.input.layers, "trace")
       IN  \A i \in DOMAIN call.ev :
              LET e == call.ev[i]
              IN  CASE e.layer = "base"    -> e.ctx = Spans(RequestCtx, traces)
                    [] e.layer = "backend" ->
                          e.ctx = IF call.op = "Shutdown" THEN NoCtx
                                  ELSE Spans(RequestCtx, traces)
                    [] e.what = "Close"    -> e.ctx = NoCtx
                    [] OTHER               -> DerivedCtx(e.ctx, traces)

\* an Insert through trace, metrics and log layers reached the Index with the
\* span's context
C15_Witness ==
    /\ call.op = "Insert" /\ call.input.base = "index"
    /\ KindsOf(call.input.layers) = {"log", "metrics", "trace"}
    /\ \E i \in DOMAIN call.ev :
          /\ call.ev[i].layer = "backend"
          /\ call.ev[i].ctx = SpanCtx(RequestCtx)

---------------------------------------------------------------------------
(* Claims about the no-op Indexer (checked under SpecNoOp).                *)

\* C16: whatever was called on it before, Shutdown included, the no-op
\* Indexer's Search returns a nil result and a nil error and its Insert,
\* Delete and Shutdown return nil; no Insert shows in a later Search.
C16_NoOpIsInert ==
    call.op \in Operations
    => /\ call.ret.err = NilErr
       /\ call.ret.resNil /\ call.ret.res = << >>

\* a Search on a no-op Indexer after an Insert and a Shutdown
C16_Witness ==
    /\ call.op = "Search"
    /\ hist = << "Insert", "Shutdown", "Search" >>
    /\ call.ret.resNil /\ call.ret.err = NilErr

---------------------------------------------------------------------------
(* Claims about empty batches and absent keys (checked under Spec).        *)

\* the last call was an Insert or a Delete of an empty batch
EmptyBatch ==
    \/ last.op = "Insert" /\ last.attrs = << >>
    \/ last.op = "Delete" /\ last.keys = << >>

\* C17: on an open Index whose backend does not fail, Insert of no attributes
\* and Delete of no keys return nil; they leave the contents as they were, so
\* that every Search gives the same outcome before and after.
C17_EmptyBatchChangesNothing ==
    EmptyBatch
    => /\ (dbOpen /\ last.fault = NoFault) => last.err = NilErr
       /\ table = last.pre
       /\ \A term \in Terms :
             IndexSearch(table, dbOpen, term, NoFault)
             = IndexSearch(last.pre, dbOpen, term, NoFault)

\* an Insert of no attributes into an Index that holds rows
C17_Witness ==
    /\ last.op = "Insert" /\ last.attrs = << >>
    /\ dbOpen /\ last.fault = NoFault
    /\ last.pre # << >>
    /\ last.err = NilErr /\ table = last.pre

\* the rows of t whose key is none of keys
WithoutKeys(t, keys) == SelectSeq(t, LAMBDA r : r.key \notin Range(keys))

\* C18: on an open Index whose backend does not fail, Delete returns nil also
\* for keys that are not present, and removes exactly the entries whose key is
\* one of the keys passed: none when no key is present.
C18_DeleteOfAbsentKeys ==
    (last.op = "Delete" /\ dbOpen /\ last.fault = NoFault)
    => /\ last.err = NilErr
       /\ table = WithoutKeys(last.pre, last.keys)

---------------------------------------------------------------------------
(* Claims about observations and Shutdown through a stack (SpecDeco).      *)

\* the last call went through a stack as New builds it with all three sinks
\* configured: trace around metrics around log around the Index
ThroughFullStack ==
    /\ call.op \in Operations
    /\ call.input.base = "index"
    /\ [i \in DOMAIN call.input.layers |-> call.input.layers[i].kind]
       = << "trace", "metrics", "log" >>

Obs(layer, what) == << layer, what >>

\* the observations of the last call in order, the attributes and error
\* events added to an open span left out
Observed ==
    LET named == SelectSeq(call.ev, LAMBDA e : e.what \notin {"record", "num_results"})
    IN  [i \in DOMAIN named |-> Obs(named[i].layer, named[i].what)]

\* the call the Index makes on its backend for an operation
BackendCallOf(op) ==
    CASE op = "Search" -> "QueryContext" [] op = "Shutdown" -> "Close" [] OTHER -> "BeginTx"

\* span start, received count, starting log line, the backend call, the warn
\* line on error, failure count on error and latency, span status on error,
\* span end
NestedAroundBackend(op, failed) ==
    << Obs("trace", "start"), Obs("metrics", "total"), Obs("log", "info"),
       Obs("base", op), Obs("backend", BackendCallOf(op)) >>
    \o (IF failed THEN << Obs("log", "warn"), Obs("metrics", "failed") >> ELSE << >>)
    \o << Obs("metrics", "latency") >>
    \o (IF failed THEN << Obs("trace", "status") >> ELSE << >>)
    \o << Obs("trace", "end") >>

\* C19 as claimed: for every operation through the full stack the observations
\* are nested around the backend call, inside the span.
C19_ObservationsNestedEveryOperation ==
    ThroughFullStack
    => Observed = NestedAroundBackend(call.op, call.d.err # NilErr)

\* C19 amended: so they are for Search, Insert and Delete; a Shutdown opens no
\* span and counts nothing: the metrics sink is released (if it has a release
\* method), the log line written, the backend closed, and the warn line
\* written on error.
C19_ObservationsNested ==
    ThroughFullStack
    => IF call.op # "Shutdown"
       THEN Observed = NestedAroundBackend(call.op, call.d.err # NilErr)
       ELSE Observed =
              (IF SinkRelease(call.input.layers[2].sink) # "none"
               THEN << Obs("metrics", SinkRelease(call.input.layers[2].sink)) >>
               ELSE << >>)
              \o << Obs("log", "info"), Obs("base", "Shutdown"), Obs("backend", "Close") >>
              \o (IF call.d.err # NilErr THEN << Obs("log", "warn") >> ELSE << >>)

\* a failed Search through the stack New builds from the three sinks
C19_Witness ==
    /\ ThroughFullStack /\ call.op = "Search"
    /\ call.input.layers = << Layer("trace", "t1"), Layer("metrics", "m1"),
                              Layer("log", "h1") >>
    /\ call.d.err # NilErr
    /\ Observed[1] = Obs("trace", "start")

\* the last call was a Shutdown through a stack with one metrics decorator
MetricsShutdownCalled ==
    /\ call.op = "Shutdown"
    /\ CountKind(call.input.layers, "metrics") = 1

\* the sink of the one metrics decorator of the stack
TheMetricsSink == CHOOSE sink \in MetricsSinksOf(call.input.layers) : TRUE

\* C20: Shutdown of the metrics decorator invokes the sink's release method
\* (when it has one) and the delegate's Shutdown, whichever of them fails, and
\* returns an error holding every failure: nil only when neither failed.
C20_MetricsShutdownJoinsErrors ==
    MetricsShutdownCalled
    => LET sinkFailed == call.fault.kind = "release"
       IN  /\ CountEv(call.ev, LAMBDA e : e.layer = "metrics" /\ e.sink = TheMetricsSink)
              = IF SinkRelease(TheMetricsSink) = "none" THEN 0 ELSE 1
           /\ CountEv(call.ev, LAMBDA e : e.layer = "base" /\ e.what = "Shutdown") = 1
           /\ sinkFailed => ErrorsIs(call.ret.err, "release failed: " \o TheMetricsSink)
           /\ \A i \in DOMAIN call.d.err : ErrorsIs(call.ret.err, call.d.err[i])
           /\ (call.ret.err = NilErr) <=> (~sinkFailed /\ call.d.err = NilErr)

\* the sink's release and the backend's close both failed
C20_Witness ==
    /\ MetricsShutdownCalled
    /\ call.input.base = "index"
    /\ call.fault.kind = "release" /\ call.d.err # NilErr
    /\ Len(call.ret.err) = 2

---------------------------------------------------------------------------
(* Claims about transactions, construction failures and the shapes of      *)
(* Search's returns (checked under Spec).                                  *)

\* C27: when Insert or Delete returns, with nil or with an error, the
\* transaction it began has been committed or rolled back: none is left open.
C27_TransactionFinishedOnReturn ==
    last.op \in {"Insert", "Delete"} => ~last.txLeft

\* C28: when NewIndex fails after the connection was opened (schema
\* initialisation or initial load), the connection is closed when it returns.
C28_FailedNewIndexClosesConnection ==
    (last.op = "NewIndex" /\ last.err # NilErr /\ last.fault.kind # "open")
    => ~dbOpen

\* C30: Search returns either a non-empty list with a nil error or a nil list
\* with a non-nil error.
C30_SearchReturnShapes ==
    last.op = "Search"
    => \/ last.res # << >> /\ ~last.resNil /\ last.err = NilErr
       \/ last.res = << >> /\ last.resNil /\ last.err # NilErr

\* a Search whose second row failed to scan: the first row is not returned
C30_Witness ==
    /\ last.op = "Search"
    /\ last.fault.kind = "scan" /\ last.fault.at = 2
    /\ last.resNil /\ last.err # NilErr

---------------------------------------------------------------------------
(* Claims about the options (checked under SpecDeco, on the options given  *)
(* to New).                                                                *)

ConfigFields == { "uri", "logHandler", "metrics", "tracer" }

\* the Config field an option sets
FieldOf(o) ==
    CASE o.opt = "WithURI" -> "uri"
      [] o.opt \in {"WithLogger", "WithLogHandler"} -> "logHandler"
      [] o.opt = "WithMetrics" -> "metrics"
      [] OTHER -> "tracer"

\* the orders of opts that keep the options of one field in their order
Reorderings(opts) ==
    LET n == Len(opts)
        perms == { p \in [1..n -> 1..n] : \A i, j \in 1..n : i # j => p[i] # p[j] }
        kept == { p \in perms :
                    \A i, j \in 1..n :
                       (i < j /\ FieldOf(opts[p[i]]) = FieldOf(opts[p[j]])) => p[i] < p[j] }
    IN  { [i \in 1..n |-> opts[p[i]]] : p \in kept }

\* C26: the options given to New yield the same Config in every order that
\* keeps the options of one field in their order; each field is what the last
\* option of that field set; an option changes no field but its own.
C26_OptionsCommute ==
    call.op = "New"
    => LET opts == call.opts
           n == Len(opts)
       IN  /\ \A q \in Reorderings(opts) : CfgNew(q) = CfgNew(opts)
           /\ CfgNew(opts).uri =
                 (IF Requested(opts, {"WithURI"}, n) = "nil" THEN ""
                  ELSE Requested(opts, {"WithURI"}, n))
           /\ CfgNew(opts).logHandler = Requested(opts, {"WithLogger", "WithLogHandler"}, n)
           /\ CfgNew(opts).metrics = Requested(opts, {"WithMetrics"}, n)
           /\ CfgNew(opts).tracer = Requested(opts, {"WithTrace"}, n)
           /\ \A i \in 1..n : \A f \in ConfigFields \ { FieldOf(opts[i]) } :
                 CfgNew(SubSeq(opts, 1, i))[f] = CfgNew(SubSeq(opts, 1, i - 1))[f]

\* New was given two options of the log handler and one of another field
C26_Witness ==
    /\ call.op = "New"
    /\ call.opts = << Opt("WithLogHandler", "h1"), Opt("WithMetrics", "m1"),
                      Opt("WithLogger", "logger2") >>
    /\ Cardinality(Reorderings(call.opts)) = 3
    /\ inst.layers = << Layer("metrics", "m1"), Layer("log", "h2") >>

---------------------------------------------------------------------------
(* Claims about the metrics sink's release (checked under SpecDeco).       *)

\* the release calls the last call made on the sink
ReleasesOf(sink) ==
    SelectSeq(call.ev, LAMBDA e : e.layer = "metrics" /\ e.sink = sink
                                  /\ e.what \in {"Shutdown", "Close"})

\* C24: Shutdown of the metrics decorator invokes at most one release method
\* of its sink: Shutdown(ctx) when the sink has it, else Close() when it has
\* that, else none; a sink with neither adds no error, the call returning what
\* the delegate's Shutdown returned.
C24_OneReleaseMethod ==
    MetricsShutdownCalled
    => LET sink == TheMetricsSink
           rel == ReleasesOf(sink)
       IN  /\ Len(rel) <= 1
           /\ "Shutdown" \in SinkMethods(sink)
              => Len(rel) = 1 /\ rel[1].what = "Shutdown"
           /\ ("Shutdown" \notin SinkMethods(sink) /\ "Close" \in SinkMethods(sink))
              => Len(rel) = 1 /\ rel[1].what = "Close"
           /\ SinkMethods(sink) = {}
              => rel = << >> /\ call.ret = call.d /\ call.fault = NoFault

\* a Shutdown through a metrics decorator whose sink has Shutdown and Close
C24_Witness ==
    /\ MetricsShutdownCalled
    /\ SinkMethods(TheMetricsSink) = {"Shutdown", "Close"}
    /\ Len(ReleasesOf(TheMetricsSink)) = 1
    /\ ReleasesOf(TheMetricsSink)[1].what = "Shutdown"

---------------------------------------------------------------------------
(* Claims about the spans of the tracing decorator (SpecDeco).             *)

\* what the last call did on tracers, in order
TraceEvents == SelectSeq(call.ev, LAMBDA e : e.layer = "trace")

CountTrace(what) == CountEv(TraceEvents, LAMBDA e : e.what = what)

\* C22: a Search, Insert or Delete through the tracing decorator starts one
\* span named for the operation and ends it on every return path; the status
\* is set to error and the error recorded exactly when the delegate returned
\* an error; the result count is recorded only on a successful Search; a
\* Shutdown starts no span and records nothing.
C22_OneSpanPerCall ==
    (call.op \in Operations /\ CountKind(call.input.layers, "trace") = 1)
    => IF call.op = "Shutdown" THEN TraceEvents = << >>
       ELSE LET failed == call.d.err # NilErr
            IN  /\ CountTrace("start") = 1 /\ CountTrace("end") = 1
                /\ TraceEvents[1].what = "start"
                /\ TraceEvents[1].name
                   = (CASE call.op = "Search" -> "search"
                        [] call.op = "Insert" -> "insert"
                        [] OTHER -> "delete")
                /\ TraceEvents[Len(TraceEvents)].what = "end"
                /\ CountTrace("status") = (IF failed THEN 1 ELSE 0)
                /\ CountTrace("record") = (IF failed THEN 1 ELSE 0)
                /\ CountTrace("num_results")
                   = (IF call.op = "Search" /\ ~failed THEN 1 ELSE 0)

\* a Delete that failed in the Index, through a tracing decorator
C22_Witness ==
    /\ call.op = "Delete" /\ call.input.base = "index"
    /\ CountKind(call.input.layers, "trace") = 1
    /\ call.d.err # NilErr
    /\ CountTrace("status") = 1
    /\ TraceEvents[Len(TraceEvents)].what = "end"

---------------------------------------------------------------------------
(* Claims about the life of the metrics sinks (SpecDeco).                  *)

\* the release calls the last call made on metrics sinks
Releases ==
    SelectSeq(call.ev, LAMBDA e : e.layer = "metrics" /\ e.what \in {"Shutdown", "Close"})

\* C23: a metrics sink's Shutdown or Close is invoked by Shutdown calls only:
\* by no Search, Insert or Delete, no constructor and no re-decoration.
C23_ReleaseOnlyFromShutdown ==
    Releases # << >> => call.op = "Shutdown"

\* a failed Insert through a metrics decorator whose sink has release methods
C23_Witness ==
    /\ call.op = "Insert"
    /\ call.input.layers # << >>
    /\ Head(call.input.layers) = Layer("metrics", "m3")
    /\ call.d.err # NilErr
    /\ \E i \in DOMAIN call.ev : call.ev[i].what = "failed" /\ call.ev[i].sink = "m3"
    /\ Releases = << >>

\* C25: a constructor given a non-nil indexer and an absent sink returns a
\* working decorator of its kind with the default sink, each time it is
\* called; only IndexerWithMetrics whose default sink cannot be created
\* returns its input; the result is never nil.
C25_DefaultSinkEachTime ==
    (call.op \in Constructors /\ call.input # NoInst /\ call.sink = "nil")
    => /\ inst # NoInst
       /\ port # "panic"
       /\ IF call.fault.kind = "metrics.New" THEN inst = call.input
          ELSE /\ inst.layers # << >>
               /\ Head(inst.layers) = Layer(KindOf(call.op), SinkUsed(call.op, "nil"))

\* the last constructor call replaced the sink of a metrics decorator
MetricsSinkReplaced ==
    /\ held.layers # << >> /\ inst.layers # << >>
    /\ Head(held.layers).kind = "metrics" /\ Head(inst.layers).kind = "metrics"
    /\ Tail(held.layers) = Tail(inst.layers)
    /\ Head(held.layers).sink \notin MetricsSinksOf(inst.layers)

\* C29: IndexerWithMetrics replacing the sink of a metrics decorator does not
\* release the replaced sink, and a later Shutdown of the returned instance
\* releases, by this layer, the current sink (the first call the Shutdown
\* makes) and never the replaced one.
C29_ReplacedSinkNotReleased ==
    /\ (call.op = "IndexerWithMetrics" /\ Redecorated)
       => ReleasesOf(Head(call.input.layers).sink) = << >>
    /\ (call.op = "Shutdown" /\ call.input = inst /\ MetricsSinkReplaced)
       => /\ ReleasesOf(Head(held.layers).sink) = << >>
          /\ IF SinkMethods(Head(inst.layers).sink) = {}
             THEN ReleasesOf(Head(inst.layers).sink) = << >>
             ELSE /\ call.ev[1].layer = "metrics"
                  /\ call.ev[1].sink = Head(inst.layers).sink
                  /\ call.ev[1].what = SinkRelease(Head(inst.layers).sink)

\* a Shutdown after sink m1 was replaced by sink m3
C29_Witness ==
    /\ call.op = "Shutdown" /\ call.input = inst /\ MetricsSinkReplaced
    /\ Head(held.layers).sink = "m1" /\ Head(inst.layers).sink = "m3"
    /\ Len(ReleasesOf("m3")) = 1 /\ ReleasesOf("m1") = << >>

---------------------------------------------------------------------------
(* Claims about the counters of the metrics decorator (SpecMetrics).       *)

\* what a call at position pc that got err has added to its operation's
\* counters and histogram
ExpectedIncs(pc, err) ==
    [total   |-> 1,
     failed  |-> IF pc \in {"observe", "return"} /\ err # NilErr THEN 1 ELSE 0,
     latency |-> IF pc = "return" THEN 1 ELSE 0]

AllReturned == \A c \in Callers : callers[c].pc = "idle"

\* C21: every call through the metrics decorator adds one to its operation's
\* received counter before delegating, one to its failed counter after the
\* delegate returned if and only if it returned an error, and one latency
\* observation after that, whatever the outcome; failed <= received always,
\* and once all calls have returned the latency observations equal the
\* received count, also with interleaved callers.
C21_CountersPerCall ==
    /\ \A c \in Callers :
          callers[c].pc # "idle" => callers[c].incs = ExpectedIncs(callers[c].pc, callers[c].err)
    /\ \A op \in MetricOps :
          /\ counters[op].failed <= counters[op].total
          /\ counters[op].latency <= counters[op].total
          /\ counters[op].total = calls[op].started
          /\ counters[op].failed <= calls[op].errored
          /\ AllReturned => /\ counters[op].latency = counters[op].total
                            /\ counters[op].failed = calls[op].errored

\* two interleaved Insert calls: one has failed and observed its latency
\* while the other's delegate has just returned without error
C21_Witness ==
    /\ callers[1].pc = "return" /\ callers[1].op = "Insert" /\ callers[1].err # NilErr
    /\ callers[2].pc = "check" /\ callers[2].op = "Insert" /\ callers[2].err = NilErr
    /\ counters["Insert"].total = 2
    /\ counters["Insert"].failed = 1
    /\ counters["Insert"].latency = 1

====
